---- MODULE Spec2Model ----
(***************************************************************************)
(* FLOP cost model of llm-profiler: the operation catalog                  *)
(* (src/operations.py) and the Model graph with its aggregator             *)
(* (src/model.py), and the stand-alone graph builder create_llama_ops      *)
(* (src/llama_train.py).                                                   *)
(*                                                                         *)
(* Python computes the costs in floating point (d = h / n_h is a true      *)
(* division).  The model computes the same expressions over exact          *)
(* rationals <<numerator, denominator>> in lowest terms, so a non-integer  *)
(* head dimension, the truncation int(n_kv * d) and a repeat factor below  *)
(* one are all represented; only the rounding of the binary format is not. *)
(***************************************************************************)
EXTENDS Integers, Sequences, FiniteSets, TLC

\* One Model object (self); the arguments (b, s) of its most recent compile;
\* the number of compile calls so far, counted 0, 1, 2-or-more; the most
\* recent call with its rounds argument, returned dict (compile has neither)
\* and raised exception; the operation most recently constructed directly
\* from the catalog, with the constructor's arguments; the list returned by
\* the most recent call if that was create_llama_ops.
VARIABLES model, b, s, ncompiles, rounds, flops, raised, call, op, ctor,
          llama_ops

vars == <<model, b, s, ncompiles, rounds, flops, raised, call, op, ctor,
          llama_ops>>

-----------------------------------------------------------------------------
\* Bounds.

\* Largest hidden dimension h.
MaxHidden == 2
\* Largest vocabulary size V and feed-forward width d_ff.
MaxWidth == 1
\* Largest head counts n_h and n_kv.
MaxHeads == 2
\* Largest layer count L.
MaxLayers == 2
\* Largest batch size b and sequence length s.
MaxBatchSeq == 2
\* Largest rounds argument.
MaxRounds == 2
\* Dimensions and parameters handed to a constructor called on its own lie
\* in -MaxNegArg..MaxArg.
MaxNegArg == 1
MaxArg == 2

-----------------------------------------------------------------------------
\* Exact arithmetic standing for Python's float arithmetic.

Abs(n) == IF n < 0 THEN -n ELSE n

RECURSIVE GCD(_, _)
GCD(m, n) == IF n = 0 THEN m ELSE GCD(n, m % n)

\* The rational n / d (d # 0) in lowest terms with a positive denominator.
Rat(n, d) ==
    IF d = 1 THEN <<n, 1>>
    ELSE LET g == GCD(Abs(n), Abs(d))
             sgn == IF d < 0 THEN -1 ELSE 1
         IN  <<sgn * (n \div g), sgn * (d \div g)>>

\* An int used as a number.
R(n) == <<n, 1>>

Add(x, y) == Rat(x[1] * y[2] + y[1] * x[2], x[2] * y[2])
Sub(x, y) == Rat(x[1] * y[2] - y[1] * x[2], x[2] * y[2])
Mul(x, y) == Rat(x[1] * y[1], x[2] * y[2])
Div(x, y) == Rat(x[1] * y[2], x[2] * y[1])
Leq(x, y) == x[1] * y[2] <= y[1] * x[2]

\* int(x): truncation toward zero.
int(x) == IF x[1] >= 0 THEN R(x[1] \div x[2]) ELSE R(-((-x[1]) \div x[2]))

\* math.prod over a shape tuple.
RECURSIVE prod(_)
prod(input) == IF input = <<>> THEN R(1) ELSE Mul(Head(input), prod(Tail(input)))

-----------------------------------------------------------------------------
\* Operation catalog (src/operations.py).  An operation is its class name and
\* its two mutable fields.

Operation(variant, fwd, bwd) ==
    [variant |-> variant, fwd_flops |-> fwd, bwd_flops |-> bwd]

total_flops(o) == Add(o.fwd_flops, o.bwd_flops)

Linear(input, out_dim) ==
    LET fwd == Mul(Mul(R(2), prod(input)), out_dim)
    IN  Operation("Linear", fwd, Mul(R(2), fwd))

Embedding == Operation("Embedding", R(0), R(0))

RMSNorm(input) ==
    Operation("RMSNorm", Mul(R(4), prod(input)), Mul(R(9), prod(input)))

Softmax(input) ==
    Operation("Softmax", Mul(R(5), prod(input)), Mul(R(4), prod(input)))

Matmul(input1, input2) ==
    LET fwd == Mul(Mul(R(2), prod(input1)), input2[Len(input2)])
    IN  Operation("Matmul", fwd, Mul(R(2), fwd))

Silu(input) ==
    Operation("Silu", Mul(R(5), prod(input)), Mul(R(9), prod(input)))

Residual(input) == Operation("Residual", prod(input), R(0))

Scale(input) == Operation("Scale", prod(input), prod(input))

RotaryEmb(input) ==
    LET fwd == Mul(R(3), prod(input))
    IN  Operation("RotaryEmb", fwd, fwd)

\* RepeatKV with the operands of the subtraction exchanged.
RepeatKV_swapped(input, n_rep) ==
    Operation("RepeatKV", R(0), Mul(prod(input), Sub(R(1), n_rep)))

RepeatKV(input, n_rep) ==
    Operation("RepeatKV", R(0), Mul(prod(input), Sub(n_rep, R(1))))

Elementwise(input) ==
    Operation("Elementwise", prod(input), Mul(R(2), prod(input)))

-----------------------------------------------------------------------------
\* Model (src/model.py).  self is the record of the object's attributes.

Model(h, V, L, n_h, n_kv, d_ff) ==
    [h |-> h, V |-> V, L |-> L, n_h |-> n_h, n_kv |-> n_kv, d_ff |-> d_ff,
     ops |-> <<>>]

\* clear_ops that keeps the list.
clear_ops_keep(self) == self

clear_ops(self) == [self EXCEPT !.ops = <<>>]

\* The local list layer_ops of compile, before the scaling loop.
layer_ops(self, bb, ss) ==
    LET d == Div(R(self.h), R(self.n_h))
        n_rep == Div(R(self.n_h), R(self.n_kv))
        B == R(bb)
        S == R(ss)
        h == R(self.h)
        n_h == R(self.n_h)
        n_kv == R(self.n_kv)
        d_ff == R(self.d_ff)
    IN  << <<"pre_attn_rmsnorm", RMSNorm(<<B, S, h>>)>>,
           <<"q_proj", Linear(<<B, S, h>>, h)>>,
           <<"k_proj", Linear(<<B, S, h>>, int(Mul(n_kv, d)))>>,
           <<"v_proj", Linear(<<B, S, h>>, int(Mul(n_kv, d)))>>,
           <<"q_rotary", RotaryEmb(<<B, S, n_h, d>>)>>,
           <<"k_rotary", RotaryEmb(<<B, S, n_kv, d>>)>>,
           <<"k_repeat_kv", RepeatKV(<<B, S, n_kv, d>>, n_rep)>>,
           <<"v_repeat_kv", RepeatKV(<<B, S, n_kv, d>>, n_rep)>>,
           <<"attn_scores", Matmul(<<B, n_h, S, d>>, <<B, n_h, d, S>>)>>,
           <<"attn_scale", Scale(<<B, n_h, S, S>>)>>,
           <<"softmax", Softmax(<<B, n_h, S, S>>)>>,
           <<"attn_v", Matmul(<<B, n_h, S, S>>, <<B, n_h, S, d>>)>>,
           <<"out_proj", Linear(<<B, S, h>>, h)>>,
           <<"post_attn_residual", Residual(<<B, S, h>>)>>,
           <<"pre_ffn_rmsnorm", RMSNorm(<<B, S, h>>)>>,
           <<"ffn_up1", Linear(<<B, S, h>>, d_ff)>>,
           <<"ffn_up2", Linear(<<B, S, d_ff>>, h)>>,
           <<"ffn_elemtwise", Elementwise(<<B, S, d_ff>>)>>,
           <<"ffn_act", Silu(<<B, S, d_ff>>)>>,
           <<"ffn_down", Linear(<<B, S, d_ff>>, h)>>,
           <<"post_ffn_residual", Residual(<<B, S, h>>)>> >>

\* The scaling loop applied to entries that were already scaled once.
scale_entry_twice(e, L) ==
    <<"all_layers_" \o e[1],
      [e[2] EXCEPT !.fwd_flops = Mul(Mul(@, R(L)), R(L)),
                   !.bwd_flops = Mul(Mul(@, R(L)), R(L))]>>

\* One iteration of the scaling loop: both fields times L, label prefixed.
scale_entry(e, L) ==
    <<"all_layers_" \o e[1],
      [e[2] EXCEPT !.fwd_flops = Mul(@, R(L)), !.bwd_flops = Mul(@, R(L))]>>

\* The scaling loop without the line for bwd_flops.
scale_layer_ops_fwd_only(lops, L) ==
    [i \in 1..Len(lops) |->
        <<"all_layers_" \o lops[i][1],
          [lops[i][2] EXCEPT !.fwd_flops = Mul(@, R(L))]>>]

\* The scaling loop over layer_ops.
scale_layer_ops(lops, L) == [i \in 1..Len(lops) |-> scale_entry(lops[i], L)]

\* The tail without the final norm.
final_ops_no_norm(self, bb, ss) ==
    << <<"lm_head", Linear(<<R(bb), R(ss), R(self.h)>>, R(self.V))>> >>

\* The two entries appended after the layer block.
final_ops(self, bb, ss) ==
    << <<"final_norm", RMSNorm(<<R(bb), R(ss), R(self.h)>>)>>,
       <<"lm_head", Linear(<<R(bb), R(ss), R(self.h)>>, R(self.V))>> >>

\* Model.compile: the object after the call.
compile(self, bb, ss) ==
    LET cleared == clear_ops(self)
    IN  [cleared EXCEPT !.ops =
            ((@ \o << <<"embedding", Embedding>> >>)
                \o scale_layer_ops(layer_ops(self, bb, ss), self.L))
                \o final_ops(self, bb, ss)]

RECURSIVE sum_fwd(_)
sum_fwd(ops) ==
    IF ops = <<>> THEN R(0) ELSE Add(Head(ops)[2].fwd_flops, sum_fwd(Tail(ops)))

RECURSIVE sum_bwd(_)
sum_bwd(ops) ==
    IF ops = <<>> THEN R(0) ELSE Add(Head(ops)[2].bwd_flops, sum_bwd(Tail(ops)))

\* A type test that also accepts the other matrix product.
isinstance_Linear_or_Matmul(o) == o.variant \in {"Linear", "Matmul"}

\* isinstance(op, Linear)
isinstance_Linear(o) == o.variant = "Linear"

RECURSIVE sum_linear(_)
sum_linear(ops) ==
    IF ops = <<>> THEN R(0)
    ELSE IF isinstance_Linear(Head(ops)[2])
         THEN Add(total_flops(Head(ops)[2]), sum_linear(Tail(ops)))
         ELSE sum_linear(Tail(ops))

\* get_training_flops with rounds applied again to the total.
get_training_flops_twice(self, r) ==
    LET fwd_total == sum_fwd(self.ops)
        bwd_total == sum_bwd(self.ops)
        total == Add(Mul(fwd_total, R(r)), Mul(bwd_total, R(r)))
        linear_total == sum_linear(self.ops)
    IN  [fwd_flops |-> Mul(fwd_total, R(r)),
         bwd_flops |-> Mul(bwd_total, R(r)),
         total_flops |-> Mul(total, R(r)),
         total_linear_flops |-> Mul(linear_total, R(r))]

\* Model.get_training_flops: the returned dict.
get_training_flops(self, r) ==
    LET fwd_total == sum_fwd(self.ops)
        bwd_total == sum_bwd(self.ops)
        total == Add(fwd_total, bwd_total)
        linear_total == sum_linear(self.ops)
    IN  [fwd_flops |-> Mul(fwd_total, R(r)),
         bwd_flops |-> Mul(bwd_total, R(r)),
         total_flops |-> Mul(total, R(r)),
         total_linear_flops |-> Mul(linear_total, R(r))]

-----------------------------------------------------------------------------
\* create_llama_ops (src/llama_train.py).  The script carries its own copy of
\* the operation classes, line for line that of src/operations.py, so the
\* catalog above stands for both.

\* The local list layer_ops of create_llama_ops: that of compile with the
\* output dimension of k_proj and v_proj left as n_kv * d.
llama_layer_ops(bb, ss, hh, n_heads, n_kvs, dff) ==
    LET d == Div(R(hh), R(n_heads))
        n_rep == Div(R(n_heads), R(n_kvs))
        B == R(bb)
        S == R(ss)
        h == R(hh)
        n_h == R(n_heads)
        n_kv == R(n_kvs)
        d_ff == R(dff)
    IN  << <<"pre_attn_rmsnorm", RMSNorm(<<B, S, h>>)>>,
           <<"q_proj", Linear(<<B, S, h>>, h)>>,
           <<"k_proj", Linear(<<B, S, h>>, Mul(n_kv, d))>>,
           <<"v_proj", Linear(<<B, S, h>>, Mul(n_kv, d))>>,
           <<"q_rotary", RotaryEmb(<<B, S, n_h, d>>)>>,
           <<"k_rotary", RotaryEmb(<<B, S, n_kv, d>>)>>,
           <<"k_repeat_kv", RepeatKV(<<B, S, n_kv, d>>, n_rep)>>,
           <<"v_repeat_kv", RepeatKV(<<B, S, n_kv, d>>, n_rep)>>,
           <<"attn_scores", Matmul(<<B, n_h, S, d>>, <<B, n_h, d, S>>)>>,
           <<"attn_scale", Scale(<<B, n_h, S, S>>)>>,
           <<"softmax", Softmax(<<B, n_h, S, S>>)>>,
           <<"attn_v", Matmul(<<B, n_h, S, S>>, <<B, n_h, S, d>>)>>,
           <<"out_proj", Linear(<<B, S, h>>, h)>>,
           <<"post_attn_residual", Residual(<<B, S, h>>)>>,
           <<"pre_ffn_rmsnorm", RMSNorm(<<B, S, h>>)>>,
           <<"ffn_up1", Linear(<<B, S, h>>, d_ff)>>,
           <<"ffn_up2", Linear(<<B, S, d_ff>>, h)>>,
           <<"ffn_elemtwise", Elementwise(<<B, S, d_ff>>)>>,
           <<"ffn_act", Silu(<<B, S, d_ff>>)>>,
           <<"ffn_down", Linear(<<B, S, d_ff>>, h)>>,
           <<"post_ffn_residual", Residual(<<B, S, h>>)>> >>

\* create_llama_ops: the returned list.
create_llama_ops(bb, ss, hh, VV, LL, n_heads, n_kvs, dff) ==
    ((<< <<"embedding", Embedding>> >>
        \o [i \in 1..Len(llama_layer_ops(bb, ss, hh, n_heads, n_kvs, dff)) |->
              LET e == llama_layer_ops(bb, ss, hh, n_heads, n_kvs, dff)[i]
              IN  <<"all_layers_" \o e[1],
                    [e[2] EXCEPT !.fwd_flops = Mul(@, R(LL)),
                                 !.bwd_flops = Mul(@, R(LL))]>>])
        \o << <<"final_norm", RMSNorm(<<R(bb), R(ss), R(hh)>>)>>,
              <<"lm_head", Linear(<<R(bb), R(ss), R(hh)>>, R(VV))>> >>)

-----------------------------------------------------------------------------
\* The state machine: a caller of one Model object.

\* No dict returned: before any call, and after compile, which returns None.
NoFlops ==
    [fwd_flops |-> R(0), bwd_flops |-> R(0), total_flops |-> R(0),
     total_linear_flops |-> R(0)]

NoCtor == [variant |-> "none", input |-> <<>>, input2 |-> <<>>, param |-> 0]

InitWith(m) ==
    /\ model = m
    /\ b = 0
    /\ s = 0
    /\ ncompiles = 0
    /\ rounds = 0
    /\ flops = NoFlops
    /\ raised = "none"
    /\ call = "__init__"
    /\ op = Embedding
    /\ ctor = NoCtor
    /\ llama_ops = <<>>

\* Model(h, V, L, n_h, n_kv, d_ff) for any six positive integers.
Init ==
    \E h \in 1..MaxHidden, V \in 1..MaxWidth, L \in 1..MaxLayers,
       n_h \in 1..MaxHeads, n_kv \in 1..MaxHeads, d_ff \in 1..MaxWidth :
        InitWith(Model(h, V, L, n_h, n_kv, d_ff))

\* model.compile(bb, ss): returns None, raises nothing.
Compile(bb, ss) ==
    /\ model' = compile(model, bb, ss)
    /\ b' = bb
    /\ s' = ss
    /\ ncompiles' = IF ncompiles < 2 THEN ncompiles + 1 ELSE ncompiles
    /\ rounds' = 0
    /\ flops' = NoFlops
    /\ raised' = "none"
    /\ call' = "compile"
    /\ llama_ops' = <<>>
    /\ UNCHANGED <<op, ctor>>

\* get_training_flops that applies rounds to the entries in place.
GetTrainingFlopsInPlace(r) ==
    /\ flops' = get_training_flops(model, r)
    /\ model' = [model EXCEPT !.ops = [i \in 1..Len(@) |->
                    <<@[i][1], [@[i][2] EXCEPT !.fwd_flops = Mul(@, R(r)),
                                              !.bwd_flops = Mul(@, R(r))]>>]]
    /\ rounds' = r
    /\ raised' = "none"
    /\ call' = "get_training_flops"
    /\ llama_ops' = <<>>
    /\ UNCHANGED <<b, s, ncompiles, op, ctor>>

\* model.get_training_flops(rounds=r): reads self.ops, raises nothing.
GetTrainingFlops(r) ==
    /\ flops' = get_training_flops(model, r)
    /\ rounds' = r
    /\ raised' = "none"
    /\ call' = "get_training_flops"
    /\ llama_ops' = <<>>
    /\ UNCHANGED <<model, b, s, ncompiles, op, ctor>>

Next ==
    \/ \E bb \in 1..MaxBatchSeq, ss \in 1..MaxBatchSeq : Compile(bb, ss)
    \/ \E r \in 1..MaxRounds : GetTrainingFlops(r)

Spec == Init /\ [][Next]_vars

-----------------------------------------------------------------------------
\* The catalog on its own: a caller constructing operations directly, with
\* any integers as dimensions and parameters.  No constructor has a raise
\* statement or a check of its arguments.

Args == (-MaxNegArg)..MaxArg
Shapes == {<<x, y>> : x \in Args, y \in Args}

\* A tuple of ints as numbers.
shape(input) == [i \in 1..Len(input) |-> R(input[i])]

Construct(o, variant, input, input2, param) ==
    /\ op' = o
    /\ ctor' = [variant |-> variant, input |-> input, input2 |-> input2,
                param |-> param]
    /\ raised' = "none"
    /\ call' = "construct"
    /\ UNCHANGED <<model, b, s, ncompiles, rounds, flops, llama_ops>>

NewLinear ==
    \E input \in Shapes, out_dim \in Args :
        Construct(Linear(shape(input), R(out_dim)), "Linear", input, <<>>, out_dim)

NewEmbedding == Construct(Embedding, "Embedding", <<>>, <<>>, 0)

NewRMSNorm ==
    \E input \in Shapes :
        Construct(RMSNorm(shape(input)), "RMSNorm", input, <<>>, 0)

NewSoftmax ==
    \E input \in Shapes :
        Construct(Softmax(shape(input)), "Softmax", input, <<>>, 0)

NewMatmul ==
    \E input1 \in Shapes, input2 \in Shapes :
        Construct(Matmul(shape(input1), shape(input2)), "Matmul", input1, input2, 0)

NewSilu ==
    \E input \in Shapes :
        Construct(Silu(shape(input)), "Silu", input, <<>>, 0)

NewResidual ==
    \E input \in Shapes :
        Construct(Residual(shape(input)), "Residual", input, <<>>, 0)

NewScale ==
    \E input \in Shapes :
        Construct(Scale(shape(input)), "Scale", input, <<>>, 0)

NewRotaryEmb ==
    \E input \in Shapes :
        Construct(RotaryEmb(shape(input)), "RotaryEmb", input, <<>>, 0)

NewRepeatKV ==
    \E input \in Shapes, n_rep \in Args :
        Construct(RepeatKV(shape(input), R(n_rep)), "RepeatKV", input, <<>>, n_rep)

NewElementwise ==
    \E input \in Shapes :
        Construct(Elementwise(shape(input)), "Elementwise", input, <<>>, 0)

InitCatalog == InitWith(Model(1, 1, 1, 1, 1, 1))

NextCatalog ==
    \/ NewLinear
    \/ NewEmbedding
    \/ NewRMSNorm
    \/ NewSoftmax
    \/ NewMatmul
    \/ NewSilu
    \/ NewResidual
    \/ NewScale
    \/ NewRotaryEmb
    \/ NewRepeatKV
    \/ NewElementwise

SpecCatalog == InitCatalog /\ [][NextCatalog]_vars

-----------------------------------------------------------------------------
\* Both graph builders side by side: a caller that compiles the Model and
\* then calls create_llama_ops with the (b, s) of that compile and the six
\* fields of the Model.

CreateLlamaOps ==
    /\ ncompiles > 0
    /\ llama_ops' = create_llama_ops(b, s, model.h, model.V, model.L,
                                     model.n_h, model.n_kv, model.d_ff)
    /\ rounds' = 0
    /\ flops' = NoFlops
    /\ raised' = "none"
    /\ call' = "create_llama_ops"
    /\ UNCHANGED <<model, b, s, ncompiles, op, ctor>>

NextBoth ==
    \/ \E bb \in 1..MaxBatchSeq, ss \in 1..MaxBatchSeq : Compile(bb, ss)
    \/ CreateLlamaOps

SpecBoth == Init /\ [][NextBoth]_vars

-----------------------------------------------------------------------------
\* Properties.

Prefix == "all_layers_"

\* The label carries the layer-aggregate prefix.
IsLayerEntry(e) == Len(e[1]) > Len(Prefix) /\ SubSeq(e[1], 1, Len(Prefix)) = Prefix

Keys == {"fwd_flops", "bwd_flops", "total_flops", "total_linear_flops"}

\* A new Model with the configuration of the current one.
Fresh == Model(model.h, model.V, model.L, model.n_h, model.n_kv, model.d_ff)

\* The sum of a sequence of numbers.
RECURSIVE SeqSum(_)
SeqSum(q) == IF q = <<>> THEN R(0) ELSE Add(Head(q), SeqSum(Tail(q)))

\* fwd_flops + bwd_flops of every entry of a list, in order.
Totals(ops) == [i \in 1..Len(ops) |-> Add(ops[i][2].fwd_flops, ops[i][2].bwd_flops)]

NonNeg(x) == x[1] >= 0

\* C1: after any sequence of compile calls the operation list and the
\* aggregate are those of a new Model of the same configuration compiled once
\* with the last (b, s): nothing of an earlier compile is kept, the list does
\* not grow, and an aggregate taken after the last compile is the new Model's.
C1_RecompileReplaces ==
    ncompiles > 0 =>
        /\ model = compile(Fresh, b, s)
        /\ Len(model.ops) = Len(compile(Fresh, b, s).ops)
        /\ \A r \in 1..MaxRounds :
              get_training_flops(model, r) = get_training_flops(compile(Fresh, b, s), r)
        /\ call = "get_training_flops" =>
              flops = get_training_flops(compile(Fresh, b, s), rounds)

C1_Witness == ncompiles >= 2 /\ call = "compile" /\ Len(model.ops) > 0

\* C2: every entry labelled all_layers_<name> carries exactly L times the
\* per-layer forward and backward FLOPs of <name> for the current (b, s),
\* however many times compile has run.
C2_ScaledOnce ==
    ncompiles > 0 =>
        LET lops == layer_ops(Fresh, b, s)
            BSH == b * s * model.h
        IN  /\ \A j \in 1..Len(model.ops) :
                  IsLayerEntry(model.ops[j]) => j \in 2..(Len(lops) + 1)
            /\ \A i \in 1..Len(lops) :
                  /\ model.ops[i + 1][1] = Prefix \o lops[i][1]
                  /\ model.ops[i + 1][2].variant = lops[i][2].variant
                  /\ model.ops[i + 1][2].fwd_flops = Mul(R(model.L), lops[i][2].fwd_flops)
                  /\ model.ops[i + 1][2].bwd_flops = Mul(R(model.L), lops[i][2].bwd_flops)
            /\ model.ops[2] = <<"all_layers_pre_attn_rmsnorm",
                                Operation("RMSNorm", R(model.L * 4 * BSH), R(model.L * 9 * BSH))>>
            /\ model.ops[3] = <<"all_layers_q_proj",
                                Operation("Linear", R(model.L * 2 * BSH * model.h),
                                          R(model.L * 4 * BSH * model.h))>>

C2_Witness == ncompiles >= 2 /\ model.L >= 2 /\ IsLayerEntry(model.ops[2])

\* C3: get_training_flops on a Model that was never compiled fails with
\* UncompiledGraph instead of returning a summary of the empty list.
C3_UncompiledAggregateFails ==
    (call = "get_training_flops" /\ ncompiles = 0) =>
        /\ raised = "UncompiledGraph"
        /\ flops # get_training_flops(Fresh, rounds)

\* The constructor arguments hold a non-positive dimension or parameter.
BadCtor ==
    \/ \E i \in 1..Len(ctor.input) : ctor.input[i] <= 0
    \/ \E i \in 1..Len(ctor.input2) : ctor.input2[i] <= 0
    \/ ctor.variant \in {"Linear", "RepeatKV"} /\ ctor.param <= 0

\* C4: constructing an operation with a non-positive dimension, out_dim or
\* n_rep fails with InvalidShape or InvalidParameter, and no operation with a
\* zero or negative cost comes out of such arguments.
C4_InvalidConstructionFails ==
    (call = "construct" /\ BadCtor) =>
        raised \in {"InvalidShape", "InvalidParameter"}

\* C5: each of the four fields returned for rounds = R is R times the field
\* returned for rounds = 1 on the same operation list.
C5_RoundsLinear ==
    call = "get_training_flops" =>
        \A k \in Keys : flops[k] = Mul(R(rounds), get_training_flops(model, 1)[k])

C5_Witness ==
    /\ call = "get_training_flops"
    /\ rounds >= 2
    /\ ncompiles >= 1
    /\ flops.total_flops # get_training_flops(model, 1).total_flops

\* C6: get_training_flops leaves the Model as it was (the operation list and
\* the six configuration fields), and what it returns after a compile is
\* determined by the configuration, the last (b, s) and rounds.
C6_AggregateReadsOnly ==
    [][call' = "get_training_flops" =>
          /\ model' = model
          /\ ncompiles > 0 =>
                flops' = get_training_flops(compile(Fresh, b, s), rounds')]_vars

C6_Witness ==
    /\ call = "get_training_flops"
    /\ ncompiles >= 1
    /\ rounds = MaxRounds
    /\ Len(model.ops) > 0

C8_NineteenPerLayer ==
    ncompiles > 0 =>
        /\ Len(layer_ops(Fresh, b, s)) = 19
        /\ Len(model.ops) = 1 + 19 + 2
        /\ model.ops[1][1] = "embedding"
        /\ \A i \in 2..20 : IsLayerEntry(model.ops[i])
        /\ model.ops[21][1] = "final_norm"
        /\ model.ops[22][1] = "lm_head"

\* C8 amended: embedding first, then a block of exactly 21 all_layers_
\* entries, then final_norm and lm_head: 24 entries, one layer being 21
\* operations.
C8_TwentyOnePerLayer ==
    ncompiles > 0 =>
        /\ Len(layer_ops(Fresh, b, s)) = 21
        /\ Len(model.ops) = 1 + 21 + 2
        /\ model.ops[1][1] = "embedding"
        /\ \A i \in 1..Len(model.ops) : IsLayerEntry(model.ops[i]) <=> i \in 2..22
        /\ model.ops[23][1] = "final_norm"
        /\ model.ops[24][1] = "lm_head"

C8_Witness == ncompiles >= 1 /\ call = "compile" /\ Len(model.ops) = 24

\* C9: total_linear_flops is rounds times the sum of forward + backward FLOPs
\* of the Linear entries and of no other entry, is 0 when the list has no
\* Linear entry, and is at most total_flops.
C9_LinearOnly ==
    call = "get_training_flops" =>
        LET lin == SelectSeq(model.ops, LAMBDA e : e[2].variant = "Linear")
            rest == SelectSeq(model.ops, LAMBDA e : e[2].variant # "Linear")
        IN  /\ flops.total_linear_flops = Mul(R(rounds), SeqSum(Totals(lin)))
            /\ Sub(flops.total_flops, flops.total_linear_flops)
                  = Mul(R(rounds), SeqSum(Totals(rest)))
            /\ lin = <<>> => flops.total_linear_flops = R(0)
            /\ Leq(flops.total_linear_flops, flops.total_flops)

C9_Witness ==
    /\ call = "get_training_flops"
    /\ ncompiles >= 1
    /\ \E i \in 1..Len(model.ops) :
          model.ops[i][2].variant = "Matmul" /\ total_flops(model.ops[i][2]) # R(0)
    /\ flops.total_linear_flops # R(0)
    /\ flops.total_linear_flops # flops.total_flops

\* C10 as stated: for six positive configuration fields, positive (b, s) and
\* positive rounds, every entry has non-negative forward and backward FLOPs
\* and the four aggregate values are non-negative.
C10_NonNegative ==
    /\ \A i \in 1..Len(model.ops) :
          NonNeg(model.ops[i][2].fwd_flops) /\ NonNeg(model.ops[i][2].bwd_flops)
    /\ call = "get_training_flops" => \A k \in Keys : NonNeg(flops[k])

\* C10 amended: the four aggregate values and every forward value are
\* non-negative; every backward value is non-negative when n_kv <= n_h, and
\* when n_kv > n_h exactly the two repeat_kv entries are negative backward.
C10_NonNegativeWhenKvAtMostHeads ==
    /\ \A i \in 1..Len(model.ops) :
          /\ NonNeg(model.ops[i][2].fwd_flops)
          /\ NonNeg(model.ops[i][2].bwd_flops) <=>
                \/ model.n_kv <= model.n_h
                \/ model.ops[i][1] \notin {"all_layers_k_repeat_kv", "all_layers_v_repeat_kv"}
    /\ call = "get_training_flops" => \A k \in Keys : NonNeg(flops[k])

C10_Witness ==
    /\ call = "get_training_flops"
    /\ ncompiles >= 1
    /\ model.n_kv < model.n_h
    /\ \E i \in 1..Len(model.ops) :
          model.ops[i][1] = "all_layers_k_repeat_kv" /\ model.ops[i][2].bwd_flops[1] > 0

\* n_kv * h / n_h is a whole number.
KvWidthIntegral == (model.n_kv * model.h) % model.n_h = 0

\* C11: Model.compile(b, s) and create_llama_ops(b, s, h, V, L, n_h, n_kv,
\* d_ff) give the same ordered list of (label, variant, forward FLOPs,
\* backward FLOPs), also when n_kv * h / n_h is not an integer.
C11_BuildersAgree ==
    call = "create_llama_ops" =>
        /\ Len(model.ops) = Len(llama_ops)
        /\ \A i \in 1..Len(llama_ops) :
              /\ model.ops[i][1] = llama_ops[i][1]
              /\ model.ops[i][2].variant = llama_ops[i][2].variant
              /\ model.ops[i][2].fwd_flops = llama_ops[i][2].fwd_flops
              /\ model.ops[i][2].bwd_flops = llama_ops[i][2].bwd_flops

\* What does hold of the two builders: the lists agree entry by entry except
\* in all_layers_k_proj and all_layers_v_proj, and agree there too exactly
\* when n_kv * h / n_h is a whole number.
BuildersAgreeApartFromKvWidth ==
    call = "create_llama_ops" =>
        /\ Len(model.ops) = Len(llama_ops)
        /\ \A i \in 1..Len(llama_ops) :
              /\ model.ops[i][1] = llama_ops[i][1]
              /\ model.ops[i][2].variant = llama_ops[i][2].variant
              /\ model.ops[i] = llama_ops[i] <=>
                    \/ KvWidthIntegral
                    \/ model.ops[i][1] \notin {"all_layers_k_proj", "all_layers_v_proj"}

====
